---------------------------- MODULE Spec2Model ----------------------------
(***************************************************************************)
(* A model of kilo.c (Vakhlov/kilo-editor): the raw-mode lifecycle, the    *)
(* window-size discovery, the file loader, the frame renderer, the input   *)
(* decoder and the key handler, as one state machine that follows main().  *)
(*                                                                         *)
(* Bytes are integers 0..255 and byte strings are sequences of them.       *)
(* The environment (terminal, file system, C library, keyboard) answers    *)
(* every call nondeterministically.  A tcsetattr call either applies all   *)
(* attributes or fails and changes nothing.  Results of write() are        *)
(* modelled only where the code looks at them (getWindowSize and           *)
(* getCursorPosition); everywhere else the bytes handed to write() are     *)
(* taken as emitted.                                                       *)
(***************************************************************************)
EXTENDS Integers, Sequences, FiniteSets, TLC

(***************************************************************************)
(* Bounds of the model.                                                    *)
(***************************************************************************)
\* Largest number of bytes of a file on disk.
MaxFileLen == 2
\* Cursor coordinates are followed up to this value; it is only ever reached
\* when a screen dimension is 0, where the code's clamp never applies.
CursorCap == 2
\* Consecutive read timeouts followed while the decoder waits for a key.
MaxTimeouts == 2
\* Number of abAppend calls of one frame whose realloc may fail.
MaxAllocFail == 1
\* The allocation failures in one frame assembled call by call.
MaxAppendFail == 2
\* The read results of one stream of standard input.
MaxStream == 5
\* Bytes of a cursor-position reply before its terminator.
MaxReply == 5

(***************************************************************************)
(* Bytes and escape sequences used by the program.                         *)
(***************************************************************************)
ESC == 27
CTRL_Q == 17

ARROW_LEFT == 1000
ARROW_RIGHT == 1001
ARROW_UP == 1002
ARROW_DOWN == 1003
DEL_KEY == 1004
HOME_KEY == 1005
END_KEY == 1006
PAGE_UP == 1007
PAGE_DOWN == 1008

\* "\x1b[2J" and "\x1b[H"
CLEAR_SCREEN == <<27, 91, 50, 74>>
CURSOR_HOME == <<27, 91, 72>>
\* "\x1b[K", "\r\n", "~", " "
ERASE_LINE == <<27, 91, 75>>
CRLF == <<13, 10>>
TILDE == <<126>>
SPACE == <<32>>
\* "\x1b[?25l" and "\x1b[?25h"
HIDE_CURSOR == <<27, 91, 63, 50, 53, 108>>
SHOW_CURSOR == <<27, 91, 63, 50, 53, 104>>
\* "\x1b[999C\x1b[999B" and "\x1b[6n"
MOVE_FAR == <<27, 91, 57, 57, 57, 67, 27, 91, 57, 57, 57, 66>>
QUERY_CURSOR == <<27, 91, 54, 110>>
\* "Kilo editor -- version 0.0.1"
WELCOME ==
    <<75, 105, 108, 111, 32, 101, 100, 105, 116, 111, 114, 32, 45, 45, 32,
      118, 101, 114, 115, 105, 111, 110, 32, 48, 46, 48, 46, 49>>

(***************************************************************************)
(* Results of one read(STDIN_FILENO, &c, 1): a byte 0..255 (read returned  *)
(* 1), or one of the three codes below.                                    *)
(***************************************************************************)
\* read returned 0 (the VTIME timeout expired)
RD_TIMEOUT == 256
\* read returned -1 with errno = EAGAIN
RD_EAGAIN == 257
\* read returned -1 with another errno
RD_ERROR == 258

IsByte(r) == r \in 0..255

(***************************************************************************)
(* Terminal attributes (struct termios): the four flag words as sets of    *)
(* the bits that are set, and the two control characters the code writes.  *)
(* CS8 is the two-bit mask made of the bits of CS6 and CS7.                *)
(***************************************************************************)
CS8 == {"CS6", "CS7"}

ZeroTermios ==
    [c_iflag |-> {}, c_oflag |-> {}, c_cflag |-> {}, c_lflag |-> {},
     VMIN |-> 0, VTIME |-> 0, VINTR |-> 0, VEOF |-> 0]

\* A terminal in the usual canonical mode.
CookedTermios ==
    [c_iflag |-> {"BRKINT", "ICRNL", "IXON", "IUTF8"},
     c_oflag |-> {"OPOST", "ONLCR"},
     c_cflag |-> {"CS6", "CS7", "CREAD"},
     c_lflag |-> {"ECHO", "ICANON", "IEXTEN", "ISIG", "ECHOE"},
     VMIN |-> 1, VTIME |-> 0, VINTR |-> 3, VEOF |-> 4]

\* A 7-bit line with parity checking and stripping.
SevenBitTermios ==
    [c_iflag |-> {"ICRNL", "INPCK", "ISTRIP", "IXON"},
     c_oflag |-> {"OPOST"},
     c_cflag |-> {"CS7", "PARENB", "CREAD"},
     c_lflag |-> {"ECHO", "ICANON", "ISIG"},
     VMIN |-> 4, VTIME |-> 2, VINTR |-> 127, VEOF |-> 4]

StartTermiosSet == {CookedTermios, SevenBitTermios}

\* The derivation with raw.c_cflag &= ~(CS8) in place of |=.
RawOfClearingCS8(t) ==
    [t EXCEPT
       !.c_iflag = @ \ {"BRKINT", "ICRNL", "INPCK", "ISTRIP", "IXON"},
       !.c_cflag = @ \ CS8,
       !.c_lflag = @ \ {"ECHO", "IEXTEN", "ICANON", "ISIG"},
       !.c_oflag = @ \ {"OPOST"},
       !.VMIN = 0,
       !.VTIME = 1]

\* The attributes enableRawMode derives from the snapshot: raw starts as a
\* copy of it, and the six assignments follow.
RawOf(t) ==
    [t EXCEPT
       !.c_iflag = @ \ {"BRKINT", "ICRNL", "INPCK", "ISTRIP", "IXON"},
       !.c_cflag = @ \cup CS8,
       !.c_lflag = @ \ {"ECHO", "IEXTEN", "ICANON", "ISIG"},
       !.c_oflag = @ \ {"OPOST"},
       !.VMIN = 0,
       !.VTIME = 1]

(***************************************************************************)
(* Input decoder.                                                          *)
(***************************************************************************)
\* The int a char holds: char is signed on some builds and unsigned on
\* others (implementation-defined), so a byte >= 0x80 is negative when signed.
CharValue(b, signedChar) == IF signedChar /\ b >= 128 THEN b - 256 ELSE b

\* TildeKey without its case '7'.
TildeKeyNoSeven(d) ==
    CASE d = 49 -> HOME_KEY
      [] d = 51 -> DEL_KEY
      [] d = 52 -> END_KEY
      [] d = 53 -> PAGE_UP
      [] d = 54 -> PAGE_DOWN
      [] d = 56 -> END_KEY
      [] OTHER -> ESC

\* switch (seq[1]) of the "ESC [ digit ~" branch; no case matching falls
\* through to the final return '\x1b'.
TildeKey(d) ==
    CASE d = 49 -> HOME_KEY
      [] d = 51 -> DEL_KEY
      [] d = 52 -> END_KEY
      [] d = 53 -> PAGE_UP
      [] d = 54 -> PAGE_DOWN
      [] d = 55 -> HOME_KEY
      [] d = 56 -> END_KEY
      [] OTHER -> ESC

\* switch (seq[1]) of the "ESC [ letter" branch.
CsiLetterKey(ch) ==
    CASE ch = 65 -> ARROW_UP
      [] ch = 66 -> ARROW_DOWN
      [] ch = 67 -> ARROW_RIGHT
      [] ch = 68 -> ARROW_LEFT
      [] ch = 70 -> END_KEY
      [] ch = 72 -> HOME_KEY
      [] OTHER -> ESC

\* switch (seq[1]) of the "ESC O" branch.
Ss3Key(ch) ==
    CASE ch = 70 -> END_KEY
      [] ch = 72 -> HOME_KEY
      [] OTHER -> ESC

\* A short read inside the escape branch after which the bytes read since
\* ESC are left for the next call.
ShortReadKeepsBytes(n) == [kind |-> "key", key |-> ESC, n |-> 1]

\* A short read inside the escape branch treated like one of the first read.
ShortReadDies(n) == [kind |-> "die", key |-> 0, n |-> n]

\* What editorReadKey does when a read inside the escape branch does not
\* return exactly one byte: return '\x1b'.  n is the number of reads made.
ShortRead(n) == [kind |-> "key", key |-> ESC, n |-> n]

\* The test of the waiting loop without its look at errno.
ReadFatalAnyErrno(r) == r = RD_ERROR \/ r = RD_EAGAIN

\* nread == -1 && errno != EAGAIN
ReadFatal(r) == r = RD_ERROR

\* editorReadKey on the results rs[1..4] of its successive reads.  kind is
\* "retry" (the while loop goes round again), "die" (die("read")) or "key"
\* (key is the int returned); n is the number of reads made.
editorReadKey(rs, signedChar) ==
    IF ~IsByte(rs[1])
    THEN IF ReadFatal(rs[1])
         THEN [kind |-> "die", key |-> 0, n |-> 1]
         ELSE [kind |-> "retry", key |-> 0, n |-> 1]
    ELSE IF CharValue(rs[1], signedChar) = ESC
    THEN IF ~IsByte(rs[2]) THEN ShortRead(2)
         ELSE IF ~IsByte(rs[3]) THEN ShortRead(3)
         ELSE IF rs[2] = 91
         THEN IF rs[3] >= 48 /\ rs[3] <= 57
              THEN IF ~IsByte(rs[4]) THEN ShortRead(4)
                   ELSE IF rs[4] = 126
                   THEN [kind |-> "key", key |-> TildeKey(rs[3]), n |-> 4]
                   ELSE [kind |-> "key", key |-> ESC, n |-> 4]
              ELSE [kind |-> "key", key |-> CsiLetterKey(rs[3]), n |-> 3]
         ELSE IF rs[2] = 79
         THEN [kind |-> "key", key |-> Ss3Key(rs[3]), n |-> 3]
         ELSE [kind |-> "key", key |-> ESC, n |-> 3]
    ELSE [kind |-> "key", key |-> CharValue(rs[1], signedChar), n |-> 1]

(***************************************************************************)
(* What standard input can deliver to one call of editorReadKey.           *)
(***************************************************************************)
\* The results of the reads of a stream: ESC, '[', '1', '~', Ctrl-Q and a
\* read that times out.
StreamResults == {ESC, 91, 49, 126, CTRL_Q, RD_TIMEOUT}

\* What arrives on standard input at once: up to MaxStream results.
Streams == UNION { [1..k -> StreamResults] : k \in 0..MaxStream }

\* A delivery followed by silence.
Supply(p) == p \o <<RD_TIMEOUT, RD_TIMEOUT, RD_TIMEOUT>>

\* The keys of a VT100/xterm keyboard, one delivery each, and a failing read.
Keyboard ==
    { <<CTRL_Q>>, <<113>>, <<233>>, <<ESC, RD_TIMEOUT>>,
      <<ESC, 91, 65>>, <<ESC, 91, 66>>, <<ESC, 91, 67>>, <<ESC, 91, 68>>,
      <<ESC, 91, 72>>, <<ESC, 79, 70>>,
      <<ESC, 91, 51, 126>>, <<ESC, 91, 53, 126>>, <<ESC, 91, 54, 126>>,
      <<RD_ERROR>> }

\* Every byte value, typed alone.
SingleBytes == { <<b>> : b \in 0..255 }

\* The bytes the decoder distinguishes, with bytes it does not and bytes
\* with the top bit set.
DecoderBytes ==
    {0, CTRL_Q, ESC, 65, 66, 67, 68, 69, 70, 72, 79, 91, 113, 126,
     128, 233, 255} \cup (48..57)

\* Whether the decoder reads on after the delivery p.
ReadsOn(p) ==
    \E s \in BOOLEAN : editorReadKey(Supply(p), s).n > Len(p)

\* The deliveries one read longer than those of P after which the decoder
\* reads on.
Extend(P) ==
    { p \o <<r>> : p \in { q \in P : ReadsOn(q) },
                   r \in DecoderBytes \cup {RD_TIMEOUT, RD_ERROR} }

\* Every delivery over DecoderBytes and reads without a byte that one round
\* of the decoder can consume.
AnyBytes ==
    LET L1 == { <<r>> : r \in DecoderBytes
                              \cup {RD_TIMEOUT, RD_EAGAIN, RD_ERROR} }
        L2 == Extend(L1)
        L3 == Extend(L2)
        L4 == Extend(L3)
    IN  SingleBytes \cup { p \in L1 \cup L2 \cup L3 \cup L4 : ~ReadsOn(p) }

(***************************************************************************)
(* Cursor motion.                                                          *)
(***************************************************************************)
\* The right and bottom edges taken one place too far.
editorMoveCursorPastEdge(key, x, y, rows, cols) ==
    CASE key = ARROW_LEFT -> IF x # 0 THEN <<x - 1, y>> ELSE <<x, y>>
      [] key = ARROW_RIGHT -> IF x # cols THEN <<x + 1, y>> ELSE <<x, y>>
      [] key = ARROW_UP -> IF y # 0 THEN <<x, y - 1>> ELSE <<x, y>>
      [] key = ARROW_DOWN -> IF y # rows THEN <<x, y + 1>> ELSE <<x, y>>
      [] OTHER -> <<x, y>>

\* editorMoveCursor: the cursor <<cx, cy>> after one key.
editorMoveCursor(key, x, y, rows, cols) ==
    CASE key = ARROW_LEFT -> IF x # 0 THEN <<x - 1, y>> ELSE <<x, y>>
      [] key = ARROW_RIGHT -> IF x # cols - 1 THEN <<x + 1, y>> ELSE <<x, y>>
      [] key = ARROW_UP -> IF y # 0 THEN <<x, y - 1>> ELSE <<x, y>>
      [] key = ARROW_DOWN -> IF y # rows - 1 THEN <<x, y + 1>> ELSE <<x, y>>
      [] OTHER -> <<x, y>>

\* while (times--) editorMoveCursor(key);
\* (The calls are taken half by half, which keeps the evaluation shallow.)
RECURSIVE MoveTimes(_, _, _, _, _, _)
MoveTimes(times, key, x, y, rows, cols) ==
    IF times <= 0 THEN <<x, y>>
    ELSE IF times = 1 THEN editorMoveCursor(key, x, y, rows, cols)
    ELSE LET half == times \div 2
             c == MoveTimes(half, key, x, y, rows, cols)
         IN  MoveTimes(times - half, key, c[1], c[2], rows, cols)

\* The switch of editorProcessKeypress for a key other than Ctrl-Q.
KeyCursor(c, x, y, rows, cols) ==
    CASE c = HOME_KEY -> <<0, y>>
      [] c = END_KEY -> <<cols - 1, y>>
      [] c = PAGE_UP -> MoveTimes(rows, ARROW_UP, x, y, rows, cols)
      [] c = PAGE_DOWN -> MoveTimes(rows, ARROW_DOWN, x, y, rows, cols)
      [] c \in {ARROW_UP, ARROW_DOWN, ARROW_LEFT, ARROW_RIGHT} ->
            editorMoveCursor(c, x, y, rows, cols)
      [] OTHER -> <<x, y>>

(***************************************************************************)
(* Window-size discovery.                                                  *)
(***************************************************************************)
SeqsUpTo(S, n) == UNION { [1..k -> S] : k \in 0..n }

\* sizeof(buf) in getCursorPosition
CprBufSize == 32

\* The bytes a cursor-position reply is made of here: ESC [ ; 0 2.  (No
\* white space and no sign, which sscanf's %d would also accept.)
ReplyBytes == {ESC, 91, 59, 48, 50}

\* What standard input delivers after the query: some bytes, then an 'R' or
\* a read that returns no byte.
Replies ==
    { body \o <<t>> : body \in SeqsUpTo(ReplyBytes, MaxReply),
                      t \in {82, RD_TIMEOUT} }

\* The bytes the read loop of getCursorPosition stores in buf: those before
\* the first read that fails or returns 'R', at most sizeof(buf) - 1 of them.
RECURSIVE CprBuf(_, _)
CprBuf(reply, i) ==
    IF i >= CprBufSize - 1 \/ i >= Len(reply) THEN <<>>
    ELSE IF ~IsByte(reply[i + 1]) \/ reply[i + 1] = 82 THEN <<>>
    ELSE <<reply[i + 1]>> \o CprBuf(reply, i + 1)

\* The longest run of decimal digits at the head of s.
RECURSIVE DigitRun(_)
DigitRun(s) ==
    IF s # <<>> /\ Head(s) \in 48..57
    THEN <<Head(s)>> \o DigitRun(Tail(s))
    ELSE <<>>

RECURSIVE DigitsValue(_)
DigitsValue(ds) ==
    IF ds = <<>> THEN 0
    ELSE 10 * DigitsValue(SubSeq(ds, 1, Len(ds) - 1)) + (ds[Len(ds)] - 48)

\* sscanf(s, "%d;%d", rows, cols): n is the value returned, and the first n
\* of rows, cols are stored.
Sscanf2(s) ==
    LET d1 == DigitRun(s)
        s1 == SubSeq(s, Len(d1) + 1, Len(s))
        d2 == IF s1 # <<>> /\ Head(s1) = 59 THEN DigitRun(Tail(s1)) ELSE <<>>
    IN  IF d1 = <<>> THEN [n |-> 0, rows |-> 0, cols |-> 0]
        ELSE IF d2 = <<>> THEN [n |-> 1, rows |-> DigitsValue(d1), cols |-> 0]
        ELSE [n |-> 2, rows |-> DigitsValue(d1), cols |-> DigitsValue(d2)]

\* getCursorPosition: ret is the value returned, stored the number of the
\* out-parameters written (rows first), asked whether the query was written.
getCursorPosition(writeOk, reply) ==
    LET buf == CprBuf(reply, 0)
        sc == Sscanf2(SubSeq(buf, 3, Len(buf)))
    IN  IF ~writeOk
        THEN [ret |-> -1, stored |-> 0, rows |-> 0, cols |-> 0]
        ELSE IF Len(buf) < 2 \/ buf[1] # ESC \/ buf[2] # 91
        THEN [ret |-> -1, stored |-> 0, rows |-> 0, cols |-> 0]
        ELSE IF sc.n # 2
        THEN [ret |-> -1, stored |-> sc.n, rows |-> sc.rows, cols |-> 0]
        ELSE [ret |-> 0, stored |-> 2, rows |-> sc.rows, cols |-> sc.cols]

\* Every way a call of getCursorPosition can end.
CprOutcomes ==
    { getCursorPosition(w, r) : w \in BOOLEAN, r \in Replies }

\* What the terminal can do with the query: the write succeeds or not, and a
\* reply is there to read.
Queries == [writeOk : BOOLEAN, reply : Replies]

\* One query for each way getCursorPosition can end.
QueriesByOutcome ==
    { CHOOSE q \in Queries : getCursorPosition(q.writeOk, q.reply) = o :
        o \in CprOutcomes }

\* The queries that end with -1.
FailingQueries ==
    { q \in QueriesByOutcome : getCursorPosition(q.writeOk, q.reply).ret = -1 }

\* The ioctl believed whenever it succeeds, zero columns or not.
getWindowSizeTrustsIoctl(ioctlOk, ws, moveOk, cpr) ==
    IF ~ioctlOk
    THEN IF ~moveOk
         THEN [ret |-> -1, stored |-> 0, rows |-> 0, cols |-> 0,
               writes |-> <<MOVE_FAR>>]
         ELSE [ret |-> cpr.ret, stored |-> cpr.stored, rows |-> cpr.rows,
               cols |-> cpr.cols, writes |-> <<MOVE_FAR, QUERY_CURSOR>>]
    ELSE [ret |-> 0, stored |-> 2, rows |-> ws.row, cols |-> ws.col,
          writes |-> <<>>]

\* getWindowSize: ioctlOk and ws are the result of the TIOCGWINSZ ioctl,
\* moveOk whether the write of the 12 bytes returned 12, cpr the outcome of
\* getCursorPosition.  writes are the byte strings handed to write().
getWindowSize(ioctlOk, ws, moveOk, cpr) ==
    IF ~ioctlOk \/ ws.col = 0
    THEN IF ~moveOk
         THEN [ret |-> -1, stored |-> 0, rows |-> 0, cols |-> 0,
               writes |-> <<MOVE_FAR>>]
         ELSE [ret |-> cpr.ret, stored |-> cpr.stored, rows |-> cpr.rows,
               cols |-> cpr.cols, writes |-> <<MOVE_FAR, QUERY_CURSOR>>]
    ELSE [ret |-> 0, stored |-> 2, rows |-> ws.row, cols |-> ws.col,
          writes |-> <<>>]

\* The sizes the terminal driver may hold (struct winsize), zero included.
TtySizes == [row : 0..2, col : 0..2]

(***************************************************************************)
(* File loader and row store.                                              *)
(***************************************************************************)
\* The bytes files are made of here: 'a', LF, CR.
FileBytes == {97, 10, 13}

Files == SeqsUpTo(FileBytes, MaxFileLen)

\* Index of the first LF of f, or 0.
RECURSIVE FirstLF(_, _)
FirstLF(f, i) ==
    IF i > Len(f) THEN 0
    ELSE IF f[i] = 10 THEN i
    ELSE FirstLF(f, i + 1)

\* The lines successive calls of getline return: each up to and including
\* its LF, the last one possibly without.
RECURSIVE GetLines(_)
GetLines(f) ==
    IF f = <<>> THEN <<>>
    ELSE LET k == FirstLF(f, 1)
         IN  IF k = 0 THEN <<f>>
             ELSE <<SubSeq(f, 1, k)>> \o GetLines(SubSeq(f, k + 1, Len(f)))

\* Only the last byte is looked at.
StripEolOnce(line) ==
    IF line # <<>> /\ line[Len(line)] \in {10, 13}
    THEN SubSeq(line, 1, Len(line) - 1)
    ELSE line

\* while (lineLength > 0 && (last is '\n' or '\r')) lineLength--;
RECURSIVE StripEol(_)
StripEol(line) ==
    IF line # <<>> /\ line[Len(line)] \in {10, 13}
    THEN StripEol(SubSeq(line, 1, Len(line) - 1))
    ELSE line

\* editorAppendRow
editorAppendRow(rows, s) == Append(rows, s)

\* The row store editorOpen builds from the file f.
RECURSIVE AppendLines(_, _)
AppendLines(rows, lines) ==
    IF lines = <<>> THEN rows
    ELSE AppendLines(editorAppendRow(rows, StripEol(Head(lines))), Tail(lines))

editorOpen(rows, f) == AppendLines(rows, GetLines(f))

(***************************************************************************)
(* Append buffer and renderer.  A frame is assembled by a sequence of      *)
(* abAppend calls; calls lists their arguments in order.                   *)
(***************************************************************************)
\* An abAppend that gives the buffer up when realloc fails.
abAppendFailureFrees(ab, s, ok) == IF ok THEN ab \o s ELSE <<>>

\* abAppend: ok is whether realloc returned a block.
abAppend(ab, s, ok) == IF ok THEN ab \o s ELSE ab

\* What the calls numbered lo..hi of calls leave in an empty buffer, those in
\* failed finding no memory.  (The calls are taken half by half, which keeps
\* the evaluation shallow; a call only ever extends the buffer, so the halves
\* concatenate.)
RECURSIVE Appended(_, _, _, _)
Appended(calls, lo, hi, failed) ==
    IF lo > hi THEN <<>>
    ELSE IF lo = hi THEN abAppend(<<>>, calls[lo], lo \notin failed)
    ELSE LET mid == (lo + hi) \div 2
         IN  Appended(calls, lo, mid, failed)
             \o Appended(calls, mid + 1, hi, failed)

\* The buffer ab after all of calls, in order.
AppendAll(ab, calls, failed) == ab \o Appended(calls, 1, Len(calls), failed)

Min(a, b) == IF a < b THEN a ELSE b

\* n copies of the call s
Repeat(s, n) == [i \in 1..n |-> s]

\* The welcome line with the tilde put in front of the padding instead of
\* taking its first place.
WelcomeCallsTildeExtra(cols) ==
    LET welcomeLen == IF Len(WELCOME) > cols THEN cols ELSE Len(WELCOME)
        padding == (cols - welcomeLen) \div 2
    IN  (IF padding # 0 THEN <<TILDE>> \o Repeat(SPACE, padding) ELSE <<>>)
        \o <<SubSeq(WELCOME, 1, welcomeLen)>>

\* The calls that draw the welcome line.
WelcomeCalls(cols) ==
    LET welcomeLen == IF Len(WELCOME) > cols THEN cols ELSE Len(WELCOME)
        padding == (cols - welcomeLen) \div 2
    IN  (IF padding # 0 THEN <<TILDE>> \o Repeat(SPACE, padding - 1) ELSE <<>>)
        \o <<SubSeq(WELCOME, 1, welcomeLen)>>

\* The welcome line drawn in the middle of the screen.
RowPayloadCallsMiddle(y, rows, cols, store) ==
    IF y >= Len(store)
    THEN IF Len(store) = 0 /\ y = rows \div 2
         THEN WelcomeCalls(cols)
         ELSE <<TILDE>>
    ELSE <<SubSeq(store[y + 1], 1, Min(Len(store[y + 1]), cols))>>

\* A file row drawn whole, however wide the screen.
RowPayloadCallsWhole(y, rows, cols, store) ==
    IF y >= Len(store)
    THEN IF Len(store) = 0 /\ y = rows \div 3
         THEN WelcomeCalls(cols)
         ELSE <<TILDE>>
    ELSE <<store[y + 1]>>

\* The calls that draw the content of screen line y (0-based).
RowPayloadCalls(y, rows, cols, store) ==
    IF y >= Len(store)
    THEN IF Len(store) = 0 /\ y = rows \div 3
         THEN WelcomeCalls(cols)
         ELSE <<TILDE>>
    ELSE <<SubSeq(store[y + 1], 1, Min(Len(store[y + 1]), cols))>>

\* A separator after every line, the last one too.
RowSeparatorAlways(y, rows) == <<CRLF>>

\* if (y < config.screenrows - 1) abAppend(ab, "\r\n", 2);
RowSeparator(y, rows) == IF y < rows - 1 THEN <<CRLF>> ELSE <<>>

\* The calls of one turn of the loop of editorDrawRows.
RowCalls(y, rows, cols, store) ==
    RowPayloadCalls(y, rows, cols, store) \o <<ERASE_LINE>>
    \o RowSeparator(y, rows)

\* The calls of the turns y = lo .. hi of the loop, in order.  (The turns are
\* taken half by half, which keeps the evaluation shallow.)
RECURSIVE DrawRowsBetween(_, _, _, _, _)
DrawRowsBetween(lo, hi, rows, cols, store) ==
    IF lo > hi THEN <<>>
    ELSE IF lo = hi THEN RowCalls(lo, rows, cols, store)
    ELSE LET mid == (lo + hi) \div 2
         IN  DrawRowsBetween(lo, mid, rows, cols, store)
             \o DrawRowsBetween(mid + 1, hi, rows, cols, store)

\* The calls of editorDrawRows: for (y = 0; y < config.screenrows; y++)
editorDrawRows(rows, cols, store) ==
    DrawRowsBetween(0, rows - 1, rows, cols, store)

\* printf's %d
RECURSIVE NatToStr(_)
NatToStr(n) ==
    IF n < 10 THEN <<48 + n>>
    ELSE NatToStr(n \div 10) \o <<48 + (n % 10)>>

IntToStr(n) == IF n < 0 THEN <<45>> \o NatToStr(-n) ELSE NatToStr(n)

\* snprintf(buf, sizeof(buf), "\x1b[%d;%dH", config.cy + 1, config.cx + 1)
CursorSeq(y, x) ==
    <<27, 91>> \o IntToStr(y + 1) \o <<59>> \o IntToStr(x + 1) \o <<72>>

\* The calls of editorRefreshScreen.
FrameCalls(x, y, rows, cols, store) ==
    <<HIDE_CURSOR, CURSOR_HOME>> \o editorDrawRows(rows, cols, store)
    \o <<CursorSeq(y, x), SHOW_CURSOR>>

(***************************************************************************)
(* State.                                                                  *)
(***************************************************************************)
VARIABLES
    pc,               \* where main() is: "start", "init", "open", "refresh",
                      \* "key", "exiting" (inside exit), "exited", "crashed"
    term,             \* the attributes of the terminal on standard input
    charSigned,       \* whether char is signed in this build
    argGiven,         \* argc >= 2
    disk,             \* the bytes of the file argv[1] names
    originalTermios,  \* config.originalTermios
    hookRegistered,   \* atexit(disableRawMode) was called
    cx, cy,           \* config.cx, config.cy
    screenrows,       \* config.screenrows
    screencols,       \* config.screencols
    row,              \* config.row[0 .. config.numRows - 1]
    out,              \* what the last step handed to write(STDOUT_FILENO)
    err,              \* the labels perror wrote to standard error
    exitCode,         \* the argument of the last call of exit, or NoStatus
    exitStatus,       \* the exit status of the process, or NoStatus
    \* What happened so far, recorded for the properties:
    startTermios,     \* the terminal attributes when the program started
    getattrFailed,    \* the tcgetattr of enableRawMode failed
    rawMode,          \* the tcsetattr of enableRawMode succeeded
    hookFailed,       \* the tcsetattr of disableRawMode failed
    tcsetattrCalls,   \* the number of tcsetattr calls made
    winQueried,       \* getWindowSize was called
    loaded,           \* editorOpen read the file
    painted,          \* a frame was written
    dropped,          \* the abAppend calls that found no memory in the last step
    quit,             \* the Ctrl-Q key was handled
    lastReads,        \* the results of the reads editorReadKey made in the
                      \* last step, <<>> when that step did not call it
    lastKey,          \* the value it returned
    timeouts,         \* consecutive reads without a byte in the current wait
    framesSinceKey,   \* the frames written since the last key was returned
    ab,               \* the bytes ab.b[0 .. ab.len - 1] of editorRefreshScreen's
                      \* buffer, <<>> when there is none
    abNext,           \* the abAppend call of the frame that comes next, 0
                      \* outside editorRefreshScreen
    abLive,           \* whether ab.b is a block of the heap not yet freed
    pending,          \* the results of the reads of standard input to come,
                      \* where the model follows them (<<>> otherwise)
    winTrace          \* the results of the system calls getWindowSize made
                      \* in the last step, <<>> when that step did not call it

envVars == <<charSigned, argGiven, disk, startTermios>>
termVars == <<term, originalTermios, hookRegistered, getattrFailed, rawMode,
              hookFailed, tcsetattrCalls>>
editorVars == <<cx, cy, screenrows, screencols, row>>
ioVars == <<out, err>>
exitVars == <<exitCode, exitStatus, quit>>
histVars == <<winQueried, loaded, painted, dropped>>
keyVars == <<lastReads, lastKey, timeouts, framesSinceKey>>
abVars == <<ab, abNext, abLive>>

vars == <<pc, envVars, termVars, editorVars, ioVars, exitVars, histVars,
          keyVars, winTrace, abVars, pending>>

NoStatus == -1

(***************************************************************************)
(* Initial states: the environment the program starts in.                  *)
(***************************************************************************)
InitEnv(Termioses, Args) ==
    /\ pc = "start"
    /\ startTermios \in Termioses
    /\ term = startTermios
    /\ charSigned \in BOOLEAN
    /\ \E a \in Args : argGiven = a[1] /\ disk = a[2]
    /\ originalTermios = ZeroTermios
    /\ hookRegistered = FALSE
    /\ cx = 0 /\ cy = 0 /\ screenrows = 0 /\ screencols = 0 /\ row = <<>>
    /\ out = <<>> /\ err = <<>>
    /\ exitCode = NoStatus /\ exitStatus = NoStatus /\ quit = FALSE
    /\ getattrFailed = FALSE /\ rawMode = FALSE /\ hookFailed = FALSE
    /\ tcsetattrCalls = 0
    /\ winQueried = FALSE /\ loaded = FALSE /\ painted = FALSE
    /\ dropped = {}
    /\ lastReads = <<>> /\ lastKey = 0 /\ timeouts = 0
    /\ framesSinceKey = 0
    /\ ab = <<>> /\ abNext = 0 /\ abLive = FALSE
    /\ pending = <<>>
    /\ winTrace = <<>>

\* kilo without an argument, or with a file of at most MaxFileLen bytes.
Invocations == {<<FALSE, <<>> >>} \cup ({TRUE} \X Files)

Init == InitEnv(StartTermiosSet, Invocations)

(***************************************************************************)
(* die and exit.                                                           *)
(***************************************************************************)
\* A die that prints nothing.
PerrorNothing(e, s) == e

\* perror(s): the label reaches standard error.
Perror(e, s) == Append(e, s)

\* exit(1) in die
DieExitCode == 1

\* Ctrl-Q leaving with the status of die.
QuitExitCodeOfDie == DieExitCode

\* exit(0) of the Ctrl-Q case
QuitExitCode == 0

\* die(s) in a step that has handed `written` to write() already: the two
\* writes, perror, exit(1).  exit then runs the registered hook (RunExitHooks).
Die(s, written) ==
    /\ out' = written \o <<CLEAR_SCREEN, CURSOR_HOME>>
    /\ err' = Perror(err, s)
    /\ exitCode' = DieExitCode
    /\ pc' = "exiting"
    /\ UNCHANGED <<exitStatus, quit>>

\* What a call of exit made while exit is running the hooks (undefined
\* behaviour) can do: the exit completes with the new status without running
\* the hook again, or the C library traps the call and the process is killed.
NestedExitOutcomes == {"exits", "trapped"}

\* disableRawMode passes the snapshot to tcsetattr.
RestoredTermios(snapshot) == snapshot

\* exit: the hook registered with atexit runs, then the process ends.
RunExitHooks ==
    /\ pc = "exiting"
    /\ \/ /\ ~hookRegistered
          /\ pc' = "exited"
          /\ exitStatus' = exitCode
          /\ out' = <<>>
          /\ UNCHANGED <<err, exitCode, quit, termVars>>
       \/ /\ hookRegistered
          /\ tcsetattrCalls' = tcsetattrCalls + 1
          /\ \/ /\ term' = RestoredTermios(originalTermios)
                /\ pc' = "exited"
                /\ exitStatus' = exitCode
                /\ out' = <<>>
                /\ UNCHANGED <<err, exitCode, quit, hookFailed>>
             \/ /\ hookFailed' = TRUE
                /\ out' = <<CLEAR_SCREEN, CURSOR_HOME>>
                /\ err' = Perror(err, "tcsetattr")
                /\ exitCode' = DieExitCode
                /\ \E o \in NestedExitOutcomes :
                      \/ /\ o = "exits"
                         /\ pc' = "exited"
                         /\ exitStatus' = DieExitCode
                      \/ /\ o = "trapped"
                         /\ pc' = "crashed"
                         /\ exitStatus' = NoStatus
                /\ UNCHANGED <<term, quit>>
          /\ UNCHANGED <<originalTermios, hookRegistered, getattrFailed, rawMode>>
    /\ winTrace' = <<>>
    /\ UNCHANGED <<envVars, pending, abVars, editorVars, histVars, keyVars>>

(***************************************************************************)
(* main: enableRawMode, initEditor, editorOpen, then the loop.             *)
(***************************************************************************)
\* No hook registered.
AtexitForgotten == FALSE

\* Whether enableRawMode has called atexit when it goes on past the
\* tcgetattr check.
AtexitCalled == TRUE

\* enableRawMode registering the hook before it looks at tcgetattr's result.
EnableRawModeHookFirst ==
    /\ pc = "start"
    /\ hookRegistered' = TRUE
    /\ \/ /\ getattrFailed' = TRUE
          /\ Die("tcgetattr", <<>>)
          /\ UNCHANGED <<term, originalTermios, rawMode, hookFailed,
                         tcsetattrCalls>>
       \/ /\ originalTermios' = term
          /\ tcsetattrCalls' = tcsetattrCalls + 1
          /\ \/ /\ term' = RawOf(originalTermios')
                /\ rawMode' = TRUE
                /\ pc' = "init"
                /\ out' = <<>>
                /\ UNCHANGED <<err, exitVars>>
             \/ /\ Die("tcsetattr", <<>>)
                /\ UNCHANGED <<term, rawMode>>
          /\ UNCHANGED <<getattrFailed, hookFailed>>
    /\ UNCHANGED <<envVars, pending, abVars, editorVars, histVars, keyVars, winTrace>>

EnableRawMode ==
    /\ pc = "start"
    /\ \/ /\ getattrFailed' = TRUE
          /\ Die("tcgetattr", <<>>)
          /\ UNCHANGED <<term, originalTermios, hookRegistered, rawMode,
                         hookFailed, tcsetattrCalls>>
       \/ /\ originalTermios' = term
          /\ hookRegistered' = AtexitCalled
          /\ tcsetattrCalls' = tcsetattrCalls + 1
          /\ \/ /\ term' = RawOf(originalTermios')
                /\ rawMode' = TRUE
                /\ pc' = "init"
                /\ out' = <<>>
                /\ UNCHANGED <<err, exitVars>>
             \/ /\ Die("tcsetattr", <<>>)
                /\ UNCHANGED <<term, rawMode>>
          /\ UNCHANGED <<getattrFailed, hookFailed>>
    /\ UNCHANGED <<envVars, pending, abVars, editorVars, histVars, keyVars, winTrace>>

\* The results of the system calls of one call of getWindowSize, in order:
\* the ioctl, the write of the two cursor moves, the write of the query, the
\* reads of the reply.  A call that is not made has no result.
WinTrace(ioctlOk, ws, moveOk, q) ==
    IF ioctlOk /\ ws.col # 0 THEN << <<"ioctl", TRUE, ws>> >>
    ELSE << (IF ioctlOk THEN <<"ioctl", TRUE, ws>> ELSE <<"ioctl", FALSE>>) >>
         \o << <<"write", moveOk>> >>
         \o (IF moveOk THEN << <<"write", q.writeOk>> >> ELSE <<>>)
         \o (IF moveOk /\ q.writeOk THEN << <<"read", q.reply>> >> ELSE <<>>)

\* initEditor, for a terminal whose driver holds one of the sizes Sizes and
\* which, asked for the cursor position, does one of Qs: whether the
\* write of the query succeeds, and the reply that is read.
InitEditor(Sizes, Qs) ==
    /\ pc = "init"
    /\ \E ioctlOk \in BOOLEAN, ws \in Sizes, moveOk \in BOOLEAN, q \in Qs :
          LET cpr == getCursorPosition(q.writeOk, q.reply)
              w == getWindowSize(ioctlOk, ws, moveOk, cpr)
          IN  /\ cx' = 0 /\ cy' = 0 /\ row' = <<>>
              /\ screenrows' = IF w.stored >= 1 THEN w.rows ELSE screenrows
              /\ screencols' = IF w.stored >= 2 THEN w.cols ELSE screencols
              /\ winTrace' = WinTrace(ioctlOk, ws, moveOk, q)
              /\ \/ /\ w.ret = -1
                    /\ Die("getWindowSize", w.writes)
                 \/ /\ w.ret = 0
                    /\ pc' = "open"
                    /\ out' = w.writes
                    /\ UNCHANGED <<err, exitVars>>
    /\ winQueried' = TRUE
    /\ UNCHANGED <<envVars, pending, abVars, termVars, loaded, painted, dropped, keyVars>>

EditorOpen ==
    /\ pc = "open"
    /\ \/ /\ ~argGiven
          /\ pc' = "refresh"
          /\ out' = <<>>
          /\ UNCHANGED <<row, loaded, err, exitVars>>
       \/ /\ argGiven
          /\ Die("fopen", <<>>)
          /\ UNCHANGED <<row, loaded>>
       \/ /\ argGiven
          /\ row' = editorOpen(row, disk)
          /\ loaded' = TRUE
          /\ pc' = "refresh"
          /\ out' = <<>>
          /\ UNCHANGED <<err, exitVars>>
       \/ \* realloc or malloc of editorAppendRow returns NULL, which the
          \* code dereferences
          /\ argGiven
          /\ GetLines(disk) # <<>>
          /\ pc' = "crashed"
          /\ out' = <<>>
          /\ UNCHANGED <<row, loaded, err, exitVars>>
    /\ winTrace' = <<>>
    /\ UNCHANGED <<envVars, pending, abVars, termVars, cx, cy, screenrows, screencols,
                   winQueried, painted, dropped, keyVars>>

\* The subsets of S of at most k elements.
RECURSIVE SubsetsUpTo(_, _)
SubsetsUpTo(S, k) ==
    IF k = 0 THEN {{}}
    ELSE LET P == SubsetsUpTo(S, k - 1)
         IN  P \cup { q \cup {i} : q \in P, i \in S }

\* editorRefreshScreen: the frame is assembled and handed to one write.
Refresh ==
    /\ pc = "refresh"
    /\ LET calls == FrameCalls(cx, cy, screenrows, screencols, row)
       IN  \E failed \in SubsetsUpTo(1..Len(calls), MaxAllocFail) :
              /\ out' = <<AppendAll(<<>>, calls, failed)>>
              /\ dropped' = failed
    /\ painted' = TRUE
    /\ framesSinceKey' = framesSinceKey + 1
    /\ pc' = "key"
    /\ lastReads' = <<>>
    /\ lastKey' = 0
    /\ UNCHANGED <<envVars, pending, abVars, termVars, editorVars, err, exitVars, winQueried,
                   loaded, timeouts, winTrace>>

\* #define ABUF_INIT {NULL, 0}
ABUF_INIT == <<>>

\* An abFree that keeps the block.
abFreeNothing(live) == live

\* abFree: free(ab->b); the block is gone.
abFree(live) == FALSE

\* editorRefreshScreen call by call.  Its first line: struct abuf ab =
\* ABUF_INIT.
RefreshBegin ==
    /\ pc = "refresh"
    /\ pc' = "append"
    /\ ab' = ABUF_INIT
    /\ abNext' = 1
    /\ abLive' = FALSE
    /\ dropped' = {}
    /\ out' = <<>>
    /\ UNCHANGED <<envVars, pending, termVars, editorVars, err, exitVars, winQueried,
                   loaded, painted, keyVars, winTrace>>

\* The next abAppend call of the frame; its realloc returns a block or NULL.
AppendStep ==
    /\ pc = "append"
    /\ LET calls == FrameCalls(cx, cy, screenrows, screencols, row)
       IN  /\ abNext <= Len(calls)
           /\ \E ok \in BOOLEAN :
                 /\ ~ok => Cardinality(dropped) < MaxAppendFail
                 /\ ab' = abAppend(ab, calls[abNext], ok)
                 /\ abLive' = (ok \/ abLive)
                 /\ dropped' = IF ok THEN dropped ELSE dropped \cup {abNext}
    /\ abNext' = abNext + 1
    /\ UNCHANGED <<pc, envVars, pending, termVars, editorVars, ioVars, exitVars,
                   winQueried, loaded, painted, keyVars, winTrace>>

\* write(STDOUT_FILENO, ab.b, ab.len); abFree(&ab); and back in main.
RefreshWrite ==
    /\ pc = "append"
    /\ abNext > Len(FrameCalls(cx, cy, screenrows, screencols, row))
    /\ out' = <<ab>>
    /\ abLive' = abFree(abLive)
    /\ ab' = <<>>
    /\ abNext' = 0
    /\ painted' = TRUE
    /\ framesSinceKey' = framesSinceKey + 1
    /\ pc' = "key"
    /\ lastReads' = <<>>
    /\ lastKey' = 0
    /\ UNCHANGED <<envVars, pending, termVars, editorVars, err, exitVars, winQueried,
                   loaded, timeouts, dropped, winTrace>>

\* CTRL_KEY(k)
CTRL_KEY(k) == k % 32

\* One round of the while loop of editorReadKey that reads no byte, the
\* result of the read being one of Results.
RetryOn(Results) ==
    /\ pc = "key"
    /\ timeouts < MaxTimeouts
    /\ \E r \in Results :
          editorReadKey(Supply(<<r>>), charSigned).kind = "retry"
    /\ timeouts' = timeouts + 1
    /\ out' = <<>>
    /\ dropped' = {}
    /\ UNCHANGED <<pc, envVars, abVars, termVars, editorVars, err, exitVars,
                   winQueried, loaded, painted, lastReads, lastKey, winTrace,
                   framesSinceKey>>

\* The read returns no byte, whatever is still to come.
WaitKey == RetryOn({RD_TIMEOUT, RD_EAGAIN}) /\ UNCHANGED pending

\* The read returns no byte because the next result of standard input says so.
WaitFromStream ==
    /\ pending # <<>>
    /\ RetryOn({Head(pending)})
    /\ pending' = Tail(pending)

\* The loop of main reading the next key without a frame in between.
AfterKeyReadAgain == "key"

\* while (1) { editorRefreshScreen(); editorProcessKeypress(); }: where main
\* goes when editorProcessKeypress returns.
AfterKey == "refresh"

\* The cursor is followed while its coordinate c is within CursorCap of an
\* edge of a viewport of n lines or columns.
NearEdge(c, n) ==
    \/ c \in -CursorCap..CursorCap
    \/ c \in (n - 1 - CursorCap)..(n - 1 + CursorCap)

\* editorProcessKeypress from the read that leaves the while loop on, for
\* a delivery of Deliveries.
editorProcessKeypress(Deliveries) ==
    /\ pc = "key"
    /\ \E p \in Deliveries :
          LET r == editorReadKey(Supply(p), charSigned)
          IN  /\ r.kind # "retry"
              /\ lastReads' = SubSeq(Supply(p), 1, r.n)
              /\ \/ /\ r.kind = "die"
                    /\ Die("read", <<>>)
                    /\ UNCHANGED <<lastKey, cx, cy>>
                 \/ /\ r.kind = "key"
                    /\ r.key = CTRL_KEY(113)
                    /\ lastKey' = r.key
                    /\ out' = <<CLEAR_SCREEN, CURSOR_HOME>>
                    /\ exitCode' = QuitExitCode
                    /\ quit' = TRUE
                    /\ pc' = "exiting"
                    /\ UNCHANGED <<err, exitStatus, cx, cy>>
                 \/ /\ r.kind = "key"
                    /\ r.key # CTRL_KEY(113)
                    /\ lastKey' = r.key
                    /\ LET c == KeyCursor(r.key, cx, cy, screenrows, screencols)
                       IN  /\ NearEdge(c[1], screencols)
                           /\ NearEdge(c[2], screenrows)
                           /\ cx' = c[1]
                           /\ cy' = c[2]
                    /\ pc' = AfterKey
                    /\ out' = <<>>
                    /\ UNCHANGED <<err, exitVars>>
    /\ timeouts' = 0
    /\ framesSinceKey' = 0
    /\ dropped' = {}
    /\ UNCHANGED <<envVars, abVars, termVars, screenrows, screencols, row,
                   winQueried, loaded, painted, winTrace>>

\* editorProcessKeypress on a delivery of Deliveries, whatever is still to
\* come being left alone.
ProcessKeypress(Deliveries) ==
    editorProcessKeypress(Deliveries) /\ UNCHANGED pending

\* editorProcessKeypress on the results standard input holds: the reads the
\* decoder makes are taken from their head, and silence follows their end.
KeyFromStream ==
    /\ pending # <<>>
    /\ editorProcessKeypress({pending})
    /\ pending' = SubSeq(pending, Len(lastReads') + 1, Len(pending))

\* Bytes arrive while the editor waits with nothing to read.
Deliver ==
    /\ pc = "key"
    /\ pending = <<>>
    /\ pending' \in Streams \ {<<>>}
    /\ UNCHANGED <<pc, envVars, abVars, termVars, editorVars, ioVars,
                   exitVars, histVars, keyVars, winTrace>>

KeyFromKeyboard == ProcessKeypress(Keyboard)

InitEditorAnySize == InitEditor(TtySizes, QueriesByOutcome)

\* A terminal of one line and one column whose driver knows the size; when
\* the ioctl fails all the same, so does the cursor-position query.
InitEditorOneSize ==
    InitEditor({[row |-> 1, col |-> 1]}, FailingQueries)

KeyFromAnyBytes == ProcessKeypress(AnyBytes)

Next ==
    \/ EnableRawMode
    \/ InitEditorAnySize
    \/ EditorOpen
    \/ Refresh
    \/ WaitKey
    \/ KeyFromKeyboard
    \/ RunExitHooks

Spec == Init /\ [][Next]_vars

(***************************************************************************)
(* The decoder on arbitrary input: one terminal of one line and column,    *)
(* and every delivery of AnyBytes.                                         *)
(***************************************************************************)
InitDecoder ==
    InitEnv({CookedTermios}, {<<FALSE, <<>> >>, <<TRUE, <<97>> >>})

NextDecoder ==
    \/ EnableRawMode
    \/ InitEditorOneSize
    \/ EditorOpen
    \/ Refresh
    \/ WaitKey
    \/ KeyFromAnyBytes
    \/ RunExitHooks

SpecDecoder == InitDecoder /\ [][NextDecoder]_vars

(***************************************************************************)
(* The renderer on wider screens: the 24 x 80 terminal and terminals       *)
(* around the width of the welcome line, with no file, an empty file and   *)
(* a file of one line.                                                     *)
(***************************************************************************)
RenderSizes ==
    {[row |-> 24, col |-> 80]}
    \cup [row : {1, 3, 4}, col : {1, 27, 28, 29, 30, 31}]

InitEditorRenderSize ==
    InitEditor(RenderSizes, FailingQueries)

InitRender ==
    InitEnv({CookedTermios}, {<<FALSE, <<>> >>, <<TRUE, <<>> >>, <<TRUE, <<97>> >>})

NextRender ==
    \/ EnableRawMode
    \/ InitEditorRenderSize
    \/ EditorOpen
    \/ Refresh
    \/ WaitKey
    \/ KeyFromKeyboard
    \/ RunExitHooks

SpecRender == InitRender /\ [][NextRender]_vars

(***************************************************************************)
(* Window-size discovery on every reply: one terminal setting, no file,    *)
(* every size of TtySizes and every query of Queries.                      *)
(***************************************************************************)
InitEditorAnyReply == InitEditor(TtySizes, Queries)

InitWindow == InitEnv({CookedTermios}, {<<FALSE, <<>> >>})

NextWindow ==
    \/ EnableRawMode
    \/ InitEditorAnyReply
    \/ EditorOpen
    \/ Refresh
    \/ WaitKey
    \/ KeyFromKeyboard
    \/ RunExitHooks

SpecWindow == InitWindow /\ [][NextWindow]_vars

(***************************************************************************)
(* The frame assembled call by call, up to MaxAppendFail allocation        *)
(* failures in a frame: terminals of up to two lines and columns, no file  *)
(* and a file of one line.                                                 *)
(***************************************************************************)
FrameSizes == [row : 0..2, col : 1..2]

InitEditorFrameSize == InitEditor(FrameSizes, FailingQueries)

InitFrame ==
    InitEnv({CookedTermios}, {<<FALSE, <<>> >>, <<TRUE, <<97>> >>})

NextFrame ==
    \/ EnableRawMode
    \/ InitEditorFrameSize
    \/ EditorOpen
    \/ RefreshBegin
    \/ AppendStep
    \/ RefreshWrite
    \/ WaitKey
    \/ KeyFromKeyboard
    \/ RunExitHooks

SpecFrame == InitFrame /\ [][NextFrame]_vars

(***************************************************************************)
(* The decoder on a stream: standard input holds the results of the reads  *)
(* to come, each call of the decoder takes its reads from their head, and  *)
(* what it leaves is there for the next call.  One terminal of one line    *)
(* and column, no file.                                                    *)
(***************************************************************************)
InitStream == InitEnv({CookedTermios}, {<<FALSE, <<>> >>})

NextStream ==
    \/ EnableRawMode
    \/ InitEditorOneSize
    \/ EditorOpen
    \/ Refresh
    \/ Deliver
    \/ WaitFromStream
    \/ KeyFromStream
    \/ RunExitHooks

SpecStream == InitStream /\ [][NextStream]_vars

(***************************************************************************)
(* Properties.                                                             *)
(***************************************************************************)
SemanticTokens ==
    {ARROW_LEFT, ARROW_RIGHT, ARROW_UP, ARROW_DOWN, DEL_KEY, HOME_KEY,
     END_KEY, PAGE_UP, PAGE_DOWN}

\* main is past initEditor and has not called exit.
Running == pc \in {"open", "refresh", "key"}

\* The labels die is called with.
DieLabels == {"tcgetattr", "tcsetattr", "getWindowSize", "fopen", "read"}

\* C1 (as claimed): after any exit path, a failed restore in the exit hook
\* included, the terminal attributes at process end equal those at startup.
C1_TerminalRestoredOnEveryExit ==
    pc = "exited" => term = startTermios

\* C1 (amended): after any exit path on which the restoring tcsetattr of the
\* exit hook does not fail, the terminal attributes at process end equal
\* those at startup; when it fails the terminal keeps what it had, raw mode
\* if raw mode was entered.
C1_TerminalRestoredUnlessRestoreFails ==
    pc = "exited" =>
        IF hookFailed /\ rawMode
        THEN term = RawOf(startTermios)
        ELSE term = startTermios

\* A die after raw mode was entered and a frame painted, restored on exit.
C1_Witness ==
    /\ pc = "exited"
    /\ rawMode /\ painted /\ ~hookFailed
    /\ err = <<"read">>
    /\ term = startTermios
    /\ term # RawOf(startTermios)

\* C2: once initEditor has returned, 0 <= cx <= screencols - 1 and
\* 0 <= cy <= screenrows - 1, before and after every key.
C2_CursorInsideViewport ==
    Running =>
        /\ 0 <= cx /\ cx <= screencols - 1
        /\ 0 <= cy /\ cy <= screenrows - 1

\* C3: when initEditor returns without die, screenrows >= 1 and
\* screencols >= 1, and no later step changes either.
C3_ScreenSizePositiveAndFixed ==
    [][ /\ (pc = "init" /\ pc' = "open") =>
              (screenrows' >= 1 /\ screencols' >= 1)
        /\ Running =>
              (screenrows' = screenrows /\ screencols' = screencols) ]_vars

\* C4: a first byte other than ESC is returned unchanged, as a value of
\* 0..255 that is no semantic token.
C4_PlainByteReturnedUnchanged ==
    (lastReads # <<>> /\ IsByte(lastReads[1]) /\ lastReads[1] # ESC) =>
        /\ lastKey = lastReads[1]
        /\ lastKey \in 0..255
        /\ lastKey \notin SemanticTokens

\* The table of C5: the escape sequences and their tokens.
C5_Table ==
    { <<<<27, 91, 65>>, ARROW_UP>>, <<<<27, 91, 66>>, ARROW_DOWN>>,
      <<<<27, 91, 67>>, ARROW_RIGHT>>, <<<<27, 91, 68>>, ARROW_LEFT>>,
      <<<<27, 91, 72>>, HOME_KEY>>, <<<<27, 79, 72>>, HOME_KEY>>,
      <<<<27, 91, 70>>, END_KEY>>, <<<<27, 79, 70>>, END_KEY>>,
      <<<<27, 91, 49, 126>>, HOME_KEY>>, <<<<27, 91, 55, 126>>, HOME_KEY>>,
      <<<<27, 91, 51, 126>>, DEL_KEY>>,
      <<<<27, 91, 52, 126>>, END_KEY>>, <<<<27, 91, 56, 126>>, END_KEY>>,
      <<<<27, 91, 53, 126>>, PAGE_UP>>, <<<<27, 91, 54, 126>>, PAGE_DOWN>> }

\* C5: the decoder returns the token of the table for each of its escape
\* sequences, and a semantic token for no other input.
C5_EscapeSequencesDecoded ==
    lastReads # <<>> =>
        /\ \A e \in C5_Table : lastReads = e[1] => lastKey = e[2]
        /\ lastKey \in SemanticTokens =>
              \E e \in C5_Table : lastReads = e[1] /\ lastKey = e[2]

\* ESC [ 7 ~ was read and HOME came back.
C5_Witness ==
    /\ pc = "refresh"
    /\ lastReads = <<27, 91, 55, 126>>
    /\ lastKey = HOME_KEY

\* C6: once the first byte read is ESC the decoder does not call die, and
\* it returns 0x1b when a later read gives no byte or the sequence is not
\* one of the table.
C6_EscapeNeverDies ==
    (lastReads # <<>> /\ lastReads[1] = ESC) =>
        /\ pc = "refresh"
        /\ err = <<>>
        /\ ( \/ \E i \in 2..Len(lastReads) : ~IsByte(lastReads[i])
             \/ \A e \in C5_Table : lastReads # e[1] ) => lastKey = ESC

\* ESC [ and then a read error: ESC came back and the program runs on.
C6_Witness ==
    /\ pc = "refresh"
    /\ lastReads = <<27, 91, RD_ERROR>>
    /\ lastKey = ESC

\* C7 (as claimed): the exit status is 0 exactly when Ctrl-Q initiated the
\* exit and 1 exactly when die did; there is no other status.
C7_ExitStatusByTrigger ==
    pc = "exited" =>
        /\ exitStatus \in {0, 1}
        /\ exitStatus = 0 <=> quit
        /\ exitStatus = 1 <=> ~quit

\* C7 (amended): a completed exit has status 0 exactly when Ctrl-Q initiated
\* it and die was not called, and status 1 exactly when die was called, the
\* call made by the exit hook after Ctrl-Q included; exit is called by the
\* Ctrl-Q case, after the two writes, and by die only; the process ends
\* without a status of its own only after die's exit inside the hook or a
\* failed row allocation.
C7_ExitStatusByDie ==
    /\ pc = "exited" =>
          /\ exitStatus \in {0, 1}
          /\ exitStatus = 0 <=> (quit /\ err = <<>>)
          /\ exitStatus = 1 <=> err # <<>>
    /\ pc \in {"exiting", "exited"} => (quit \/ err # <<>>)
    /\ (pc = "exiting" /\ quit) =>
          (out = <<CLEAR_SCREEN, CURSOR_HOME>> /\ exitCode = 0)
    /\ quit => (lastKey = CTRL_Q /\ lastReads = <<CTRL_Q>>)
    /\ pc = "crashed" =>
          /\ exitStatus = NoStatus
          /\ hookFailed \/ (argGiven /\ ~loaded /\ ~painted)

\* Ctrl-Q, then the restore fails: the process exits with status 1.
C7_Witness ==
    /\ pc = "exited"
    /\ quit /\ hookFailed
    /\ exitStatus = 1

\* C8: when the tcgetattr of enableRawMode fails, die("tcgetattr") ends the
\* program with status 1, with no hook registered, no tcsetattr call, the
\* terminal untouched, and no window-size query, file load or frame.
C8_TcgetattrFailure ==
    getattrFailed =>
        /\ pc \in {"exiting", "exited"}
        /\ exitCode = 1
        /\ pc = "exiting" => out = <<CLEAR_SCREEN, CURSOR_HOME>>
        /\ pc = "exited" => exitStatus = 1
        /\ err = <<"tcgetattr">>
        /\ ~hookRegistered
        /\ tcsetattrCalls = 0
        /\ term = startTermios
        /\ ~winQueried /\ ~loaded /\ ~painted

\* tcgetattr failed and the process has ended.
C8_Witness ==
    /\ getattrFailed
    /\ pc = "exited"
    /\ exitStatus = 1

\* C9 (as claimed): standard error is never written.
C9_StderrNeverWritten ==
    err = <<>>

\* C9 (amended): standard error is written by die only, one label per call
\* of die: it is empty while main runs and after an exit that die had no
\* part in, and it is not empty once die has called exit(1).
C9_StderrOnlyFromDie ==
    /\ pc \in {"start", "init", "open", "refresh", "key"} => err = <<>>
    /\ err # <<>> <=> exitCode = 1
    /\ (pc = "exited" /\ exitStatus = 0) => err = <<>>
    /\ \A i \in 1..Len(err) : err[i] \in DieLabels
    /\ Len(err) <= 2
    /\ hookFailed => err[Len(err)] = "tcsetattr"

\* die("read") and then die("tcsetattr") from the exit hook.
C9_Witness ==
    /\ pc = "exited"
    /\ err = <<"read", "tcsetattr">>

\* Where sep occurs in s.
Occurrences(s, sep) ==
    { k \in 1..(Len(s) - Len(sep) + 1) : SubSeq(s, k, k + Len(sep) - 1) = sep }

\* A frame was written by the last step.
FrameWritten == pc = "key" /\ Len(out) = 1

FramePrefix == HIDE_CURSOR \o CURSOR_HOME

FrameSuffix == CursorSeq(cy, cx) \o SHOW_CURSOR

\* The frame starts with hide-cursor and home and ends with the cursor
\* position and show-cursor.
FrameBracketed(frame) ==
    /\ Len(frame) >= Len(FramePrefix) + Len(FrameSuffix)
    /\ SubSeq(frame, 1, Len(FramePrefix)) = FramePrefix
    /\ SubSeq(frame, Len(frame) - Len(FrameSuffix) + 1, Len(frame)) = FrameSuffix

\* What lies between them.
RowSection(frame) ==
    SubSeq(frame, Len(FramePrefix) + 1, Len(frame) - Len(FrameSuffix))

\* s ends with suffix
EndsWith(s, suffix) ==
    /\ Len(s) >= Len(suffix)
    /\ SubSeq(s, Len(s) - Len(suffix) + 1, Len(s)) = suffix

\* sec is n lines separated by n - 1 CR LF, each line a payload followed by
\* CSI K.  A line starts at 1 or after a CR LF, and ends before the next
\* CR LF or at the end of sec.
RowsWellFormed(sec, n) ==
    LET seps == Occurrences(sec, CRLF)
        starts == {1} \cup { k + Len(CRLF) : k \in seps }
        EndOf(b) ==
            IF \E k \in seps : k >= b
            THEN (CHOOSE k \in seps :
                      k >= b /\ \A j \in seps : j >= b => k <= j) - 1
            ELSE Len(sec)
    IN  /\ Cardinality(starts) = n
        /\ \A b \in starts : EndsWith(SubSeq(sec, b, EndOf(b)), ERASE_LINE)

Spaces(n) == [i \in 1..n |-> 32]

\* The byte strings f[lo], ..., f[hi] with sep between consecutive ones.
RECURSIVE JoinBetween(_, _, _, _)
JoinBetween(f, lo, hi, sep) ==
    IF lo > hi THEN <<>>
    ELSE IF lo = hi THEN f[lo]
    ELSE LET mid == (lo + hi) \div 2
         IN  JoinBetween(f, lo, mid, sep) \o sep
             \o JoinBetween(f, mid + 1, hi, sep)

\* Screen line y (0-based) of the row section sec: what lies between the
\* y-th CR LF (or the start) and the next one (or the end).
ScreenLine(sec, y) ==
    LET seps == Occurrences(sec, CRLF)
        starts == {1} \cup { k + Len(CRLF) : k \in seps }
        b == CHOOSE c \in starts : Cardinality({ k \in seps : k < c }) = y
        e == IF \E k \in seps : k >= b
             THEN (CHOOSE k \in seps :
                       k >= b /\ \A j \in seps : j >= b => k <= j) - 1
             ELSE Len(sec)
    IN  SubSeq(sec, b, e)

\* The number of screen lines of sec.
ScreenLineCount(sec) == Cardinality(Occurrences(sec, CRLF)) + 1

\* The frame the claim C11 describes, with n spaces in the welcome line.
C11_Frame(n) ==
    LET line == [k \in 1..24 |->
                    IF k - 1 = 8
                    THEN TILDE \o Spaces(n) \o WELCOME \o ERASE_LINE
                    ELSE TILDE \o ERASE_LINE]
    IN  HIDE_CURSOR \o CURSOR_HOME \o JoinBetween(line, 1, 24, CRLF)
        \o <<27, 91, 49, 59, 49, 72>> \o SHOW_CURSOR

\* The first frame on a 24 x 80 screen without a file: no append dropped,
\* the cursor at its initial place.
C11_FirstFrame ==
    /\ FrameWritten
    /\ screenrows = 24 /\ screencols = 80
    /\ row = <<>>
    /\ cx = 0 /\ cy = 0
    /\ dropped = {}

\* C11 (as claimed): with 24 lines, 80 columns and no file the first frame
\* has '~' CSI K on lines 0..7 and 9..23, '~', 27 spaces, the banner and
\* CSI K on line 8, then CSI 1;1 H and cursor show.
C11_FirstFrameTwentySevenSpaces ==
    C11_FirstFrame => out[1] = C11_Frame(27)

\* C11 (amended): the same with 25 spaces on line 8, the padding being
\* (80 - 28) / 2 = 26 positions of which '~' takes the first, when no append
\* of the frame is dropped.
C11_FirstFrameTwentyFiveSpaces ==
    C11_FirstFrame => out[1] = C11_Frame(25)

\* The first frame of a 24 x 80 screen was written, 80 bytes on line 8.
C11_Witness ==
    /\ C11_FirstFrame
    /\ ~argGiven
    /\ Len(ScreenLine(RowSection(out[1]), 8))
          = 1 + 25 + Len(WELCOME) + Len(ERASE_LINE)

\* What is left of a screen line without the CSI K that ends it.
Payload(line) ==
    IF EndsWith(line, ERASE_LINE)
    THEN SubSeq(line, 1, Len(line) - Len(ERASE_LINE))
    ELSE line

\* The payload C12 gives the welcome line on a screen of cols columns.
C12_Banner(cols) ==
    LET welcomeLen == IF Len(WELCOME) < cols THEN Len(WELCOME) ELSE cols
        padding == (cols - welcomeLen) \div 2
    IN  IF padding > 0
        THEN TILDE \o Spaces(padding - 1) \o SubSeq(WELCOME, 1, welcomeLen)
        ELSE SubSeq(WELCOME, 1, welcomeLen)

\* Every screen line past the file is as C12 says: the banner on line
\* screenrows / 3 of an empty row store, and '~' otherwise.
C12_LinesPastTheFile ==
    \A y \in Len(row)..(screenrows - 1) :
        Payload(ScreenLine(RowSection(out[1]), y))
            = IF Len(row) = 0 /\ y = screenrows \div 3
              THEN C12_Banner(screencols)
              ELSE TILDE

C13_FileLines(f) ==
    LET lfs == { k \in 1..Len(f) : f[k] = 10 }
        starts == { b \in {1} \cup { k + 1 : k \in lfs } : b <= Len(f) }
        EndOf(b) ==
            IF \E k \in lfs : k >= b
            THEN CHOOSE k \in lfs : k >= b /\ \A j \in lfs : j >= b => k <= j
            ELSE Len(f)
        Kept(b) ==
            CHOOSE n \in (b - 1)..EndOf(b) :
                /\ \A j \in (n + 1)..EndOf(b) : f[j] \in {10, 13}
                /\ n >= b => f[n] \notin {10, 13}
        NthStart(i) ==
            CHOOSE b \in starts : Cardinality({ c \in starts : c < b }) = i - 1
    IN  [i \in 1..Cardinality(starts) |->
            SubSeq(f, NthStart(i), Kept(NthStart(i)))]

\* The length of the longest of lines
Longest(lines) ==
    IF lines = <<>> THEN 0
    ELSE CHOOSE n \in { Len(lines[i]) : i \in 1..Len(lines) } :
             \A i \in 1..Len(lines) : Len(lines[i]) <= n

\* A frame of a loaded file on a screen at least as wide as its longest
\* line, with no append dropped.
C13_LoadedAndRendered ==
    /\ FrameWritten
    /\ loaded
    /\ dropped = {}
    /\ screencols >= Longest(C13_FileLines(disk))

\* C13 (as claimed, on a screen of at least one line): the text lines of the
\* frame are the lines of the file, all of them, in order, each once.
C13_AllLinesVisible ==
    (C13_LoadedAndRendered /\ screenrows >= 1) =>
        LET lines == C13_FileLines(disk)
            sec == RowSection(out[1])
        IN  /\ Len(lines) <= ScreenLineCount(sec)
            /\ \A i \in 1..Len(lines) :
                  Payload(ScreenLine(sec, i - 1)) = lines[i]

\* C13 (amended): the row store holds the lines of the file, and the text
\* lines of the frame are the first screenrows of them, in order, each once.
C13_FirstLinesVisible ==
    C13_LoadedAndRendered =>
        LET lines == C13_FileLines(disk)
            sec == RowSection(out[1])
            shown == Min(Len(lines), screenrows)
        IN  /\ row = lines
            /\ \A i \in 1..shown :
                  Payload(ScreenLine(sec, i - 1)) = lines[i]
            /\ screenrows >= 1 => ScreenLineCount(sec) = screenrows

\* The file "a" LF on two lines of two columns: one text line, one tilde.
C13_Witness ==
    /\ C13_LoadedAndRendered
    /\ disk = <<97, 10>>
    /\ screenrows = 2 /\ screencols = 2
    /\ Payload(ScreenLine(RowSection(out[1]), 0)) = <<97>>
    /\ Payload(ScreenLine(RowSection(out[1]), 1)) = TILDE

\* A step of editorProcessKeypress that handles a key other than Ctrl-Q.
KeyStep == pc = "key" /\ pc' = "refresh"

\* C14: one PAGE_DOWN leaves cy = screenrows - 1 and one PAGE_UP leaves
\* cy = 0, from any cursor position, and neither changes cx.
C14_PageKeysReachTheEdge ==
    [][ KeyStep =>
          /\ lastKey' = PAGE_DOWN => (cy' = screenrows - 1 /\ cx' = cx)
          /\ lastKey' = PAGE_UP => (cy' = 0 /\ cx' = cx) ]_vars

\* C15: HOME sets cx to 0 and END to screencols - 1, leaving cy; an arrow
\* moves its own coordinate by one, or not at all at its edge of the
\* viewport; any key other than these, the page keys and Ctrl-Q changes
\* nothing; and no key changes the row store or the screen size.
C15_EffectOfEachKey ==
    [][ /\ KeyStep =>
            LET k == lastKey'
            IN  /\ k = HOME_KEY => (cx' = 0 /\ cy' = cy)
                /\ k = END_KEY => (cx' = screencols - 1 /\ cy' = cy)
                /\ k = ARROW_LEFT =>
                      (cy' = cy /\ cx' = IF cx = 0 THEN cx ELSE cx - 1)
                /\ k = ARROW_RIGHT =>
                      (cy' = cy
                       /\ cx' = IF cx = screencols - 1 THEN cx ELSE cx + 1)
                /\ k = ARROW_UP =>
                      (cx' = cx /\ cy' = IF cy = 0 THEN cy ELSE cy - 1)
                /\ k = ARROW_DOWN =>
                      (cx' = cx
                       /\ cy' = IF cy = screenrows - 1 THEN cy ELSE cy + 1)
                /\ k \notin SemanticTokens \ {DEL_KEY} =>
                      (cx' = cx /\ cy' = cy)
        /\ pc = "key" =>
              (row' = row /\ screenrows' = screenrows
               /\ screencols' = screencols) ]_vars

\* ARROW_RIGHT was handled and the cursor is in the last of 80 columns, where
\* 100 of them from the origin end as well.
C15_Witness ==
    /\ pc = "refresh"
    /\ screenrows = 24 /\ screencols = 80
    /\ lastKey = ARROW_RIGHT
    /\ cx = 79 /\ cy = 0
    /\ MoveTimes(100, ARROW_RIGHT, 0, 0, screenrows, screencols) = <<79, 0>>

\* The file rows of the frame are the first min(length, screencols) bytes
\* of the stored rows.
C16_FileRowsCut ==
    \A y \in 0..(Min(Len(row), screenrows) - 1) :
        Payload(ScreenLine(RowSection(out[1]), y))
            = SubSeq(row[y + 1], 1, Min(Len(row[y + 1]), screencols))

C17_TwoIntegers(body) ==
    \E i \in 1..Len(body), j \in 1..Len(body) :
        /\ i + 1 + j <= Len(body)
        /\ \A k \in 1..i : body[k] \in 48..57
        /\ body[i + 1] = 59
        /\ \A k \in (i + 2)..(i + 1 + j) : body[k] \in 48..57

\* The reply that was read starts with ESC [ and goes on with two integers
\* (its last element is the 'R' or the read without a byte that ended it).
C17_ReplyAccepted(reply) ==
    /\ Len(reply) >= 3
    /\ reply[1] = ESC /\ reply[2] = 91
    /\ C17_TwoIntegers(SubSeq(reply, 3, Len(reply) - 1))

\* C17: the ioctl result is taken exactly when the ioctl succeeds with a
\* column count other than 0; otherwise the two moves and then the query are
\* written, and the reply is accepted exactly when both writes succeed and
\* it starts with ESC [ and two integers separated by ';'; in every other
\* case die("getWindowSize") calls exit(1), and no file is loaded and no
\* frame painted afterwards.
C17_WindowSizeDiscovery ==
    /\ winTrace # <<>> =>
          LET io == winTrace[1]
              taken == io[2] /\ io[3].col # 0
              accepted == /\ Len(winTrace) = 4
                          /\ C17_ReplyAccepted(winTrace[4][2])
          IN  /\ io[1] = "ioctl"
              /\ taken =>
                    /\ Len(winTrace) = 1
                    /\ pc = "open"
                    /\ screenrows = io[3].row /\ screencols = io[3].col
                    /\ out = <<>> /\ err = <<>>
              /\ ~taken =>
                    /\ Len(winTrace) >= 2
                    /\ Len(out) >= 1 /\ out[1] = MOVE_FAR
                    /\ winTrace[2][2] =>
                          /\ Len(winTrace) >= 3
                          /\ Len(out) >= 2 /\ out[2] = QUERY_CURSOR
                    /\ (Len(winTrace) >= 3 /\ winTrace[3][2]) <=>
                          Len(winTrace) = 4
                    /\ accepted <=> pc = "open"
                    /\ accepted =>
                          (out = <<MOVE_FAR, QUERY_CURSOR>> /\ err = <<>>)
                    /\ ~accepted =>
                          /\ pc = "exiting"
                          /\ err = <<"getWindowSize">>
                          /\ exitCode = 1
                          /\ EndsWith(out, <<CLEAR_SCREEN, CURSOR_HOME>>)
    /\ (err # <<>> /\ err[1] = "getWindowSize") =>
          /\ pc \in {"exiting", "exited", "crashed"}
          /\ pc = "exited" => exitStatus = 1
          /\ ~loaded /\ ~painted

\* The ioctl reports no columns and the reply ESC [ 2 ; 2 R is accepted.
C17_Witness ==
    /\ pc = "open"
    /\ winTrace = << <<"ioctl", TRUE, [row |-> 2, col |-> 0]>>,
                     <<"write", TRUE>>, <<"write", TRUE>>,
                     <<"read", <<27, 91, 50, 59, 50, 82>> >> >>
    /\ screenrows = 2 /\ screencols = 2

\* A step in which editorReadKey returns a key.
TokenStep == pc = "key" /\ lastReads = <<>> /\ lastReads' # <<>> /\ err' = err

\* A step of editorRefreshScreen.
FrameStep == pc = "refresh" /\ pc' = "key"

\* A step in which the read of editorReadKey's loop returns no byte.
TimeoutStep == pc = "key" /\ timeouts' = timeouts + 1

\* The frame positions the cursor at line y, column x (0-based) as its last
\* act before showing it.
CursorShown(frame, x, y) ==
    \/ EndsWith(frame, CursorSeq(y, x) \o SHOW_CURSOR)
    \/ EndsWith(frame, CursorSeq(y, x))

WholeFrame ==
    HIDE_CURSOR \o CURSOR_HOME
    \o AppendAll(<<>>, editorDrawRows(screenrows, screencols, row), {})
    \o CursorSeq(cy, cx) \o SHOW_CURSOR

KeptInputs(calls, n) ==
    JoinBetween([i \in 1..n |-> IF i \in dropped THEN <<>> ELSE calls[i]],
                1, n, <<>>)

\* C20: an abAppend whose allocation fails leaves the bytes and the length
\* of the buffer as they were, one that succeeds puts its input at the end;
\* so after any number of calls the buffer is the inputs of the calls that
\* succeeded, in order, and that buffer is what editorRefreshScreen writes,
\* the program going on to read a key.
C20_AppendsConcatenate ==
    [][ LET calls == FrameCalls(cx, cy, screenrows, screencols, row)
        IN  /\ (pc = "append" /\ pc' = "append") =>
                  IF abNext \in dropped'
                  THEN ab' = ab /\ Len(ab') = Len(ab)
                  ELSE /\ Len(ab') = Len(ab) + Len(calls[abNext])
                       /\ SubSeq(ab', 1, Len(ab)) = ab
                       /\ SubSeq(ab', Len(ab) + 1, Len(ab')) = calls[abNext]
            /\ pc' = "append" => ab' = (KeptInputs(calls, abNext - 1))'
            /\ (pc = "append" /\ pc' = "key") =>
                  /\ out' = <<KeptInputs(calls, Len(calls))>>
                  /\ err' = err
                  /\ exitCode' = NoStatus ]_vars

\* A frame of one file row written without its first call (hide cursor) and
\* its fifth (the cursor position), and the program waiting for a key.
C20_Witness ==
    /\ FrameWritten
    /\ dropped = {1, 5}
    /\ exitCode = NoStatus
    /\ out[1] = CURSOR_HOME \o <<97>> \o ERASE_LINE \o SHOW_CURSOR

\* A step in which editorReadKey leaves its waiting loop: it returns a key
\* or calls die.
LeavesWaitingLoop == pc = "key" /\ lastReads = <<>> /\ lastReads' # <<>>

\* C21: in the waiting loop of editorReadKey a read of no byte and a read
\* failing with EAGAIN go round the loop again: no key is returned and the
\* cursor, the size, the rows, the terminal and the exit state stay as they
\* are, however many came before; a read failing otherwise calls
\* die("read"), which exits with 1 and returns no key; a key is returned
\* only when the first read that ends the loop has read one byte.
C21_WaitingLoop ==
    [][ /\ TimeoutStep =>
              /\ timeouts < MaxTimeouts
              /\ UNCHANGED <<pc, editorVars, termVars, err, exitVars,
                             lastReads, lastKey, loaded, painted>>
              /\ out' = <<>>
        /\ LeavesWaitingLoop =>
              /\ lastReads'[1] \notin {RD_TIMEOUT, RD_EAGAIN}
              /\ IF lastReads'[1] = RD_ERROR
                 THEN /\ Len(lastReads') = 1
                      /\ err' = Append(err, "read")
                      /\ exitCode' = 1
                      /\ pc' = "exiting"
                      /\ ~quit'
                      /\ UNCHANGED <<editorVars, lastKey, term>>
                 ELSE /\ IsByte(lastReads'[1])
                      /\ err' = err
                      /\ pc' = "refresh" \/ (quit' /\ pc' = "exiting")
        /\ (Len(err') > Len(err) /\ err'[Len(err')] = "read") =>
              (LeavesWaitingLoop /\ lastReads' = <<RD_ERROR>>)
        /\ (pc = "key" /\ pc' # "key") => LeavesWaitingLoop ]_vars

\* Two reads in a row gave no byte and the decoder waits on, the cursor
\* where the frame put it, nothing on standard error.
C21_Witness ==
    /\ pc = "key"
    /\ timeouts = 2
    /\ lastReads = <<>>
    /\ err = <<>>
    /\ exitCode = NoStatus

\* The flags C22 names as cleared, by field.
C22_Cleared ==
    [c_iflag |-> {"BRKINT", "ICRNL", "INPCK", "ISTRIP", "IXON"},
     c_oflag |-> {"OPOST"},
     c_cflag |-> {},
     c_lflag |-> {"ECHO", "ICANON", "IEXTEN", "ISIG"}]

\* t is what C22 says raw-mode entry makes of the snapshot o: flag by flag,
\* a named flag is off, the bits of the 8-bit character size are on, any
\* other flag is as in o; VMIN is 0, VTIME is 1, and the other control
\* characters are those of o.
C22_Derived(o, t) ==
    /\ DOMAIN t = DOMAIN o
    /\ \A fld \in DOMAIN C22_Cleared :
          \A f \in o[fld] \cup t[fld] \cup C22_Cleared[fld] :
             f \in t[fld] <=>
                \/ fld = "c_cflag" /\ f \in {"CS6", "CS7"}
                \/ f \in o[fld] /\ f \notin C22_Cleared[fld]
    /\ {"CS6", "CS7"} \subseteq t.c_cflag
    /\ t.VMIN = 0 /\ t.VTIME = 1
    /\ \A cc \in DOMAIN o \ (DOMAIN C22_Cleared \cup {"VMIN", "VTIME"}) :
          t[cc] = o[cc]

\* C22: when enableRawMode succeeds the snapshot is the attributes the
\* terminal had, the attributes it sets are derived from the snapshot as the
\* claim lists, the terminal keeps them while the editor runs, and no step
\* after the capture changes the snapshot.
C22_RawModeEntry ==
    [][ /\ (pc = "start" /\ pc' = "init") =>
              /\ originalTermios' = term
              /\ C22_Derived(originalTermios', term')
        /\ pc' \in {"init", "open", "refresh", "key"} =>
              C22_Derived(originalTermios', term')
        /\ pc # "start" => originalTermios' = originalTermios ]_vars

\* Raw mode entered on the 7-bit line: parity checking and stripping, CR
\* to NL, flow control, output processing, echo, canonical mode and signals
\* are off, the character size is 8 bits with PARENB and CREAD as they were,
\* and the interrupt and end-of-file characters are those of the snapshot.
C22_Witness ==
    /\ pc = "init"
    /\ originalTermios = SevenBitTermios
    /\ term = [c_iflag |-> {}, c_oflag |-> {},
               c_cflag |-> {"CS6", "CS7", "PARENB", "CREAD"},
               c_lflag |-> {},
               VMIN |-> 0, VTIME |-> 1, VINTR |-> 127, VEOF |-> 4]

\* The reads one call of the decoder makes once its first read has returned
\* a byte, on the read results rs: one for a byte other than ESC; after ESC
\* two more unless one of them returns no byte, and a fourth after
\* ESC [ digit.
C23_ReadsMade(rs) ==
    IF rs[1] # ESC THEN 1
    ELSE IF ~IsByte(rs[2]) THEN 2
    ELSE IF ~IsByte(rs[3]) THEN 3
    ELSE IF rs[2] = 91 /\ rs[3] \in 48..57 THEN 4
    ELSE 3

\* The bytes among the read results rs.
C23_BytesIn(rs) == Cardinality({ i \in 1..Len(rs) : IsByte(rs[i]) })

\* C23: a call of the decoder that returns takes its reads from the head of
\* what standard input holds and consumes 1 to 4 bytes; what it has read is
\* gone, so after ESC a sequence that is none of the table gives ESC and
\* nothing else, and the editor quits only when the first byte of a call is
\* Ctrl-Q; what the call did not read stays, in order, for the next call.
C23_BytesConsumedOnce ==
    [][ /\ LeavesWaitingLoop =>
              LET rs == Supply(pending)
                  n == C23_ReadsMade(rs)
              IN  /\ lastReads' = SubSeq(rs, 1, n)
                  /\ C23_BytesIn(lastReads') \in 1..4
                  /\ pending' = SubSeq(pending, n + 1, Len(pending))
                  /\ quit' <=> rs[1] = CTRL_Q
                  /\ ( /\ rs[1] = ESC
                       /\ \A e \in C5_Table : SubSeq(rs, 1, n) # e[1] ) =>
                        (lastKey' = ESC /\ pc' = "refresh" /\ ~quit')
        /\ (pending # <<>> /\ pending' # pending) =>
              \/ LeavesWaitingLoop
              \/ TimeoutStep /\ ~IsByte(Head(pending)) /\ pending' = Tail(pending)
        /\ quit' => (quit \/ (LeavesWaitingLoop /\ lastReads' = <<CTRL_Q>>))
      ]_vars

\* ESC, Ctrl-Q and a read that timed out were consumed by one call, which
\* returned ESC; the editor runs on, and the Ctrl-Q that came after them is
\* still to be read.
C23_Witness ==
    /\ pc = "refresh"
    /\ lastReads = <<ESC, CTRL_Q, RD_TIMEOUT>>
    /\ lastKey = ESC
    /\ ~quit
    /\ exitCode = NoStatus
    /\ pending = <<CTRL_Q>>

=============================================================================
